---- MODULE Spec2Model ----
(***************************************************************************)
(* A model of wallets-alpha/live-wallets (src/server.py):                  *)
(*   - WalletDatabase: the SQLite table `wallets`, add_wallet,             *)
(*     cleanup_database, get_latest_wallets, get_count;                    *)
(*   - on_token_transaction / process_transaction_item: the filter;        *)
(*   - export_wallets_to_csv / start_export_timer: the tiered export;      *)
(*   - WebSocketService: the two sockets, reconnect, rooms.                *)
(*                                                                         *)
(* The specifications share the variables; each moves one part of the      *)
(* program and leaves the rest of the state alone:                         *)
(*   SpecDB     receive threads interleaving add_wallet / cleanup_database *)
(*   SpecStore  add_wallet called by one thread, one call per step         *)
(*   SpecExport one writer and the export cycle                            *)
(*   SpecPipe   one receive thread handling payloads                       *)
(*   SpecWS     the WebSocketService                                       *)
(*   SpecMsg    on_message and the listeners of the emitter                *)
(*   SpecTimer  the loop of export_timer with cycles that raise            *)
(*   SpecBackoff   the delay reconnect() computes                          *)
(*   SpecTxn    add_wallet statement by statement beside readers           *)
(*   SpecReconnect the WebSocketService with racing delayed_reconnects     *)
(***************************************************************************)
EXTENDS Integers, Sequences, FiniteSets, TLC

VARIABLES
    wallets,      \* the table `wallets`: its rows, in rowid order
    pc,           \* per receive thread, its place inside add_wallet
    cnt,          \* per receive thread, the `count` cleanup_database read
    seen,         \* SpecStore: the wallets add_wallet has been called for
    last,         \* the last step taken and what it observed
    expPc,        \* export_wallets_to_csv: 0 between cycles, else the tier to read next
    tiers,        \* the lists the running (or last) export cycle has read, in order
    clean,        \* whether no write has come between the reads of the cycle
    payload,      \* on_token_transaction: the elements of the payload being handled
    idx,          \* the element process_transaction_item gets next (0: no payload in hand)
    stored,       \* the elements of the payload whose add_wallet has returned
    raisedAt,     \* the element at which an exception left the loop (0: none)
    lastItem,     \* the last element processed, and the table before it
    apps,         \* every WebSocketApp connect() has created, in order of creation
    socket,       \* self.socket: an index into apps, or None
    transaction_socket,   \* self.transaction_socket: an index into apps, or None
    reconnect_attempts,   \* self.reconnect_attempts
    subscribed_rooms,     \* self.subscribed_rooms
    pending,      \* the delayed_reconnect threads that are asleep
    wsLast,       \* the last step of the service and the frames it sent
    joins,        \* per room in early, the join frames sent since (up to MaxCount)
    early,        \* the rooms joined while both channels were connecting, not touched since
    terminated,   \* disconnect() has been called while a reconnect was pending
    wanted,       \* the rooms whose last join_room / leave_room call, since the last
                  \* disconnect(), was a join_room
    listeners,    \* self.emitter: per room, the listeners registered, in order
    msgLast,      \* the last frame on_message got and what it made the emitter do
    exportErr,    \* export_timer: "ok", "failed" (in its except branch) or "dead"
    failures,     \* the cycles of export_timer that raised (counted up to MaxFailures)
    clock,        \* time.time() when reconnect() reads it, in ticks of 1/Ticks s
    reconnect_delay,  \* reconnect(): its local reconnect_delay, in 1/10000 s
    txn,          \* add_wallet: the call's arguments and its connection's open transaction
    obs,          \* the last read of another connection and the call it fell into
    woken         \* the delayed_reconnect threads past their read of
                  \* self.reconnect_attempts and before their write: the values read

storeVars == <<wallets, pc, cnt, seen, last>>
expVars == <<expPc, tiers, clean>>
pipeVars == <<payload, idx, stored, raisedAt, lastItem>>
wsVars == <<apps, socket, transaction_socket, reconnect_attempts, subscribed_rooms,
            pending, wsLast, joins, early, terminated, wanted>>
msgVars == <<listeners, msgLast>>
timerVars == <<exportErr, failures>>
backoffVars == <<clock, reconnect_delay>>
txnVars == <<txn, obs>>
raceVars == <<woken>>
auxVars == <<msgVars, timerVars, backoffVars, txnVars, raceVars>>
vars == <<wallets, pc, cnt, seen, last, expPc, tiers, clean,
          payload, idx, stored, raisedAt, lastItem,
          apps, socket, transaction_socket, reconnect_attempts, subscribed_rooms,
          pending, wsLast, joins, early, terminated, wanted,
          listeners, msgLast, exportErr, failures, clock, reconnect_delay,
          txn, obs, woken>>

(***************************************************************************)
(* Bounds.  CAP stands for the 500000 of cleanup_database (server.py:159,  *)
(* 161), scaled down so that the table can fill up.                        *)
(***************************************************************************)
CAP == 2

Threads == {1, 2}
Addrs == {"W1", "W2", "W3", "W4"}
Times == {1, 2}

\* process_transaction_item stores a wallet when volume >= 60, and stores
\* the volume as the row's amount.
MIN_VOLUME == 60
\* A volume is kept in thousandths, so that 59.999 is a value.
Thousandths(v) == v * 1000
Amounts == {Thousandths(MIN_VOLUME), Thousandths(MIN_VOLUME) + 1}

Min(a, b) == IF a < b THEN a ELSE b

(***************************************************************************)
(* The table.  A row is (wallet_address, timestamp, amount); the sequence  *)
(* keeps the rows in rowid order: an INSERT takes the next rowid, so it    *)
(* appends, and a DELETE removes rows without moving the others.           *)
(***************************************************************************)
Row(w, ts, amt) == [wallet_address |-> w, timestamp |-> ts, amount |-> amt]

RowsOf(rows, w) == {i \in 1..Len(rows) : rows[i].wallet_address = w}

\* (mutant) the DELETE of the existing row left out
DeleteWalletNone(rows, w) == rows

\* DELETE FROM wallets WHERE wallet_address = ?
DeleteWallet(rows, w) == SelectSeq(rows, LAMBDA r : r.wallet_address # w)

\* INSERT INTO wallets ... VALUES (?, ?, ?); wallet_address is the PRIMARY
\* KEY, so an INSERT of a key that is present raises and inserts nothing.
InsertWallet(rows, w, ts, amt) ==
    IF RowsOf(rows, w) # {} THEN rows ELSE Append(rows, Row(w, ts, amt))

\* add_wallet's transaction: DELETE, INSERT, commit.
UpsertRows(rows, w, ts, amt) == InsertWallet(DeleteWallet(rows, w), w, ts, amt)

\* SQLite's ORDER BY timestamp with a LIMIT: a table scan in rowid order
\* into a sorter keyed (timestamp, scan sequence number), so rows of equal
\* timestamp come out in rowid order, for ASC and for DESC alike.
Precedes(rows, i, j, desc) ==
    IF desc THEN rows[i].timestamp > rows[j].timestamp
            ELSE rows[i].timestamp < rows[j].timestamp

First(rows, desc) ==
    CHOOSE i \in 1..Len(rows) :
        /\ \A j \in 1..Len(rows) : ~Precedes(rows, j, i, desc)
        /\ \A j \in 1..(i - 1) : Precedes(rows, j, i, desc) \/ Precedes(rows, i, j, desc)

Without(rows, i) == SubSeq(rows, 1, i - 1) \o SubSeq(rows, i + 1, Len(rows))

RECURSIVE OrderByTimestamp(_, _)
OrderByTimestamp(rows, desc) ==
    IF rows = <<>> THEN <<>>
    ELSE LET i == First(rows, desc)
         IN  <<rows[i]>> \o OrderByTimestamp(Without(rows, i), desc)

Limit(rows, n) == SubSeq(rows, 1, Min(n, Len(rows)))

\* (mutant) the subquery ordered DESC: the newest rows are selected
OldestWalletsDesc(rows, n) ==
    LET s == Limit(OrderByTimestamp(rows, TRUE), n)
    IN  {s[i].wallet_address : i \in 1..Len(s)}

\* SELECT wallet_address FROM wallets ORDER BY timestamp ASC LIMIT ?
OldestWallets(rows, n) ==
    LET s == Limit(OrderByTimestamp(rows, FALSE), n)
    IN  {s[i].wallet_address : i \in 1..Len(s)}

\* DELETE FROM wallets WHERE wallet_address IN (the oldest delete_count)
DeleteOldest(rows, n) ==
    LET old == OldestWallets(rows, n)
    IN  SelectSeq(rows, LAMBDA r : r.wallet_address \notin old)

\* get_count: SELECT COUNT FROM wallets
get_count(rows) == Len(rows)

\* cleanup_database run without interruption
cleanup_database(rows) ==
    IF get_count(rows) > CAP THEN DeleteOldest(rows, get_count(rows) - CAP) ELSE rows

\* add_wallet run without interruption
add_wallet(rows, w, ts, amt) == cleanup_database(UpsertRows(rows, w, ts, amt))

\* (mutant) LIMIT applied to the table scan, ORDER BY to what it leaves
get_latest_walletsLimitFirst(rows, count) ==
    LET s == OrderByTimestamp(Limit(rows, count), TRUE)
    IN  [i \in 1..Len(s) |-> s[i].wallet_address]

\* get_latest_wallets
get_latest_wallets(rows, count) ==
    LET s == Limit(OrderByTimestamp(rows, TRUE), count)
    IN  [i \in 1..Len(s) |-> s[i].wallet_address]

(***************************************************************************)
(* SpecDB: receive threads inside add_wallet.  Each call opens its own     *)
(* sqlite3 connections and nothing serialises the calls, so the steps of   *)
(* a call are the commit of DELETE+INSERT, the SELECT COUNT of             *)
(* cleanup_database, and the commit of its DELETE; a call returns with the *)
(* last of them.  Both sockets deliver to on_message on their own          *)
(* run_forever thread (lines 42-43), hence more than one thread.           *)
(***************************************************************************)
NoStep == [op |-> "init", w |-> "", ts |-> 0, amt |-> 0, n |-> 0,
           again |-> FALSE, prev |-> 0]

InitStore ==
    /\ wallets = <<>>
    /\ pc = [t \in Threads |-> "idle"]
    /\ cnt = [t \in Threads |-> 0]
    /\ seen = {}
    /\ last = NoStep

\* start_export_timer has started no cycle yet
InitExport ==
    /\ expPc = 0
    /\ tiers = <<>>
    /\ clean = TRUE

\* Elements of a payload.  A dict has a wallet (NoWallet: the key is
\* missing, None or empty), a volume (absent, a number, or a value that is
\* no number) and a time (NoTime: the key is missing).
NoWallet == ""
NoTime == 0
NoVolume == [kind |-> "absent", val |-> 0]
Num(v) == [kind |-> "num", val |-> v]
BadVolume == [kind |-> "str", val |-> 0]
NonDict == [kind |-> "other", wallet |-> NoWallet, volume |-> NoVolume, time |-> NoTime]
Dict(w, v, tm) == [kind |-> "dict", wallet |-> w, volume |-> v, time |-> tm]
NoItem == [set |-> FALSE, item |-> NonDict, ok |-> TRUE, now |-> 0, pre |-> <<>>]

\* main: no payload has arrived yet
InitPipe ==
    /\ payload = <<>>
    /\ idx = 0
    /\ stored = {}
    /\ raisedAt = 0
    /\ lastItem = NoItem

\* Room names, as the sequences of their characters.
TRANSACTION == <<"t", "r", "a", "n", "s", "a", "c", "t", "i", "o", "n">>
RoomTransactionTok == TRANSACTION \o <<":", "T", "O", "K">>
RoomPriceTok == <<"p", "r", "i", "c", "e", ":", "T", "O", "K">>
Rooms == {RoomTransactionTok, RoomPriceTok}

None == 0
Channels == {"main", "transaction"}

\* A WebSocketApp and the thread running its run_forever:
\*   "connecting"  sock is not connected yet
\*   "connected"   sock.connected, the on_open callback not yet made
\*   "open"        sock.connected, on_open made, the receive loop runs
\*   "closing"     the connection is gone, the on_close callback not yet made
\*   "closed"      on_close made, the thread has ended
App(type) == [type |-> type, st |-> "connecting"]

NoWsStep == [op |-> "init", out |-> {}]

\* WebSocketService.__init__, lines 15-26, connect() included
InitWS ==
    /\ apps = <<App("main"), App("transaction")>>
    /\ socket = 1
    /\ transaction_socket = 2
    /\ reconnect_attempts = 0
    /\ subscribed_rooms = {}
    /\ pending = 0
    /\ wsLast = NoWsStep
    /\ joins = [r \in Rooms |-> 0]
    /\ early = {}
    /\ terminated = FALSE
    /\ wanted = {}

\* An inbound frame: the text on_message gets.  json says what json.loads
\* makes of it; of an object, type, room and data are its members, NoField
\* for a member that is missing.
NoField == <<>>
EmptyData == <<"[]">>
UNKNOWN == <<"u", "n", "k", "n", "o", "w", "n">>
Topics == {RoomTransactionTok, UNKNOWN}
Handlers == {"h1", "h2", "hx"}
Object(type, room, data) == [json |-> "object", type |-> type, room |-> room, data |-> data]
NotJson == [json |-> "invalid", type |-> NoField, room |-> NoField, data |-> NoField]
NotObject == [json |-> "array", type |-> NoField, room |-> NoField, data |-> NoField]
NoEmit(frame) == [frame |-> frame, emitted |-> FALSE, topic |-> NoField, data |-> NoField,
                  registered |-> <<>>, called |-> <<>>]

\* WebSocketService.__init__, line 23: EventEmitter()
InitMsg ==
    /\ listeners = [t \in Topics |-> <<>>]
    /\ msgLast = NoEmit(NotJson)

\* start_export_timer, lines 305-306: the thread starts
InitTimer ==
    /\ exportErr = "ok"
    /\ failures = 0

\* reconnect() has not run yet
NoDelay == 0

InitBackoff ==
    /\ clock = 0
    /\ reconnect_delay = NoDelay

\* No call of add_wallet yet, no read yet.
NoTxn == [open |-> FALSE, rows |-> <<>>, w |-> "", ts |-> 0, amt |-> 0, stored |-> FALSE]
NoRead == [read |-> "none", during |-> "", latest |-> <<>>, count |-> 0]

InitTxn ==
    /\ txn = NoTxn
    /\ obs = NoRead

Init ==
    /\ InitStore /\ InitExport /\ InitPipe /\ InitWS /\ InitMsg /\ InitTimer /\ InitBackoff
    /\ InitTxn
    /\ woken = <<>>

\* add_wallet, lines 132-145
AddWalletWrite(t, w, ts, amt) ==
    /\ pc[t] = "idle"
    /\ wallets' = UpsertRows(wallets, w, ts, amt)
    /\ pc' = [pc EXCEPT ![t] = "cleanup"]
    /\ last' = [NoStep EXCEPT !.op = "write"]
    /\ UNCHANGED <<cnt, seen>>

\* cleanup_database, lines 152-159 and, when count <= 500000, 169-170
CleanupCount(t) ==
    /\ pc[t] = "cleanup"
    /\ IF get_count(wallets) > CAP
       THEN /\ pc' = [pc EXCEPT ![t] = "delete"]
            /\ cnt' = [cnt EXCEPT ![t] = get_count(wallets)]
            /\ last' = [NoStep EXCEPT !.op = "count", !.n = get_count(wallets)]
       ELSE /\ pc' = [pc EXCEPT ![t] = "idle"]
            /\ last' = [NoStep EXCEPT !.op = "return"]
            /\ UNCHANGED cnt
    /\ UNCHANGED <<wallets, seen>>

\* cleanup_database, lines 160-170
CleanupDelete(t) ==
    /\ pc[t] = "delete"
    /\ LET delete_count == cnt[t] - CAP
       IN  /\ wallets' = DeleteOldest(wallets, delete_count)
           /\ last' = [NoStep EXCEPT !.op = "evict", !.n = delete_count]
    /\ pc' = [pc EXCEPT ![t] = "idle"]
    /\ cnt' = [cnt EXCEPT ![t] = 0]
    /\ UNCHANGED seen

NextDB ==
    /\ \/ \E t \in Threads, w \in Addrs, ts \in Times : AddWalletWrite(t, w, ts, Thousandths(MIN_VOLUME))
       \/ \E t \in Threads : CleanupCount(t)
       \/ \E t \in Threads : CleanupDelete(t)
    /\ UNCHANGED <<expVars, pipeVars, wsVars, auxVars>>

SpecDB == Init /\ [][NextDB]_vars

Rows(rows) == {rows[i] : i \in 1..Len(rows)}

\* C1: count() <= CAP holds right after every add_wallet call returns,
\* whichever thread made the call.
C1_CountWithinCapAtReturn ==
    last.op \in {"return", "evict"} => get_count(wallets) <= CAP

\* C4: when cleanup_database finds count > CAP, the rows it removes are
\* count - CAP in number (count as its SELECT read it; all the rows when
\* fewer are left), every removed row is at least as old as every row that
\* stays, and the rows that stay are untouched.
C4_EvictsOldest ==
    [][\A t \in Threads :
          (pc[t] = "delete" /\ pc'[t] = "idle") =>
              LET gone == Rows(wallets) \ Rows(wallets')
              IN  /\ Cardinality(gone) = Min(cnt[t] - CAP, Len(wallets))
                  /\ Cardinality(gone) >= 1
                  /\ \A g \in gone, r \in Rows(wallets') : g.timestamp <= r.timestamp
                  /\ wallets' = SelectSeq(wallets, LAMBDA r : r \notin gone)]_vars

\* C4's case: an enforcement that removed two rows out of CAP + 2.
C4_Witness ==
    /\ last.op = "evict"
    /\ last.n = 2
    /\ get_count(wallets) = CAP

(***************************************************************************)
(* SpecStore: add_wallet calls made one after the other (one receive       *)
(* thread), each run to its return.                                        *)
(***************************************************************************)
PrevTimestamp(rows, w) ==
    IF RowsOf(rows, w) = {} THEN 0
    ELSE rows[CHOOSE i \in RowsOf(rows, w) : TRUE].timestamp

\* add_wallet, lines 130-148.  The step records the call's arguments,
\* whether the wallet had been upserted before (again), the timestamp of
\* the row the call replaced (prev, 0 when there was none) and the number
\* of rows cleanup_database removed (n).
AddWallet(w, ts, amt) ==
    /\ \A t \in Threads : pc[t] = "idle"
    /\ wallets' = add_wallet(wallets, w, ts, amt)
    /\ seen' = seen \cup {w}
    /\ last' = [op |-> "add_wallet", w |-> w, ts |-> ts, amt |-> amt,
                n |-> get_count(UpsertRows(wallets, w, ts, amt)) - get_count(wallets'),
                again |-> w \in seen, prev |-> PrevTimestamp(wallets, w)]
    /\ UNCHANGED <<pc, cnt>>

NextStore ==
    /\ \E w \in Addrs, ts \in Times, amt \in Amounts : AddWallet(w, ts, amt)
    /\ UNCHANGED <<expVars, pipeVars, wsVars, auxVars>>

SpecStore == Init /\ [][NextStore]_vars

RecordsOf(w) == {wallets[i] : i \in RowsOf(wallets, w)}

\* C5 as stated: after the second (or a later) upsert of a wallet returns,
\* the table holds exactly one row for it, with that call's timestamp and
\* amount.
C5_SecondUpsertLeavesOneRecord ==
    (last.op = "add_wallet" /\ last.again) =>
        /\ Cardinality(RowsOf(wallets, last.w)) = 1
        /\ RecordsOf(last.w) = {Row(last.w, last.ts, last.amt)}

\* C5, amended: no wallet ever has two rows; after an upsert returns, the
\* wallet's row carries that call's timestamp and amount, whatever the
\* timestamp it replaced, unless the call's own capacity enforcement
\* removed it, which happens only when the table was over CAP and no
\* remaining row is older.
C5_UpsertLastWriteWinsOrEvicted ==
    /\ \A w \in Addrs : Cardinality(RowsOf(wallets, w)) <= 1
    /\ last.op = "add_wallet" =>
          \/ /\ Cardinality(RowsOf(wallets, last.w)) = 1
             /\ RecordsOf(last.w) = {Row(last.w, last.ts, last.amt)}
          \/ /\ RowsOf(wallets, last.w) = {}
             /\ last.n >= 1
             /\ get_count(wallets) = CAP
             /\ \A r \in Rows(wallets) : last.ts <= r.timestamp

\* C5's case: a second upsert, with an earlier timestamp than the row it
\* replaced, has returned and its row is the wallet's only one.
C5_Witness ==
    /\ last.op = "add_wallet"
    /\ last.again
    /\ last.prev > last.ts
    /\ RecordsOf(last.w) = {Row(last.w, last.ts, last.amt)}

(***************************************************************************)
(* SpecExport: the export cycle of export_wallets_to_csv, one              *)
(* get_latest_wallets per size, while a receive thread goes on writing.    *)
(* SIZES stands for [5000, 10000, 50000, 100000, 200000] (line 264),       *)
(* scaled down with the table.                                             *)
(***************************************************************************)
SIZES == <<1, 2, 3>>

\* export_timer wakes up: export_wallets_to_csv, lines 259-264
ExportStart ==
    /\ expPc = 0
    /\ expPc' = 1
    /\ tiers' = <<>>
    /\ clean' = TRUE
    /\ UNCHANGED storeVars

\* one turn of the loop over sizes, lines 266-281
ExportRead ==
    /\ expPc \in 1..Len(SIZES)
    /\ tiers' = Append(tiers, get_latest_wallets(wallets, SIZES[expPc]))
    /\ expPc' = expPc + 1
    /\ UNCHANGED <<clean, storeVars>>

\* lines 283-289: the lists are handed to the GitManager; then
\* export_timer sleeps (lines 298-299)
ExportFinish ==
    /\ expPc = Len(SIZES) + 1
    /\ expPc' = 0
    /\ tiers' = <<>>
    /\ clean' = TRUE
    /\ UNCHANGED storeVars

\* A commit on the table while the cycle is between two of its reads.
Dirty ==
    /\ clean' = (clean /\ expPc \notin 2..Len(SIZES))
    /\ UNCHANGED <<expPc, tiers>>

Writer == CHOOSE t \in Threads : TRUE
ExportAddrs == {"W1", "W2", "W3"}

NextExport ==
    /\ \/ \E w \in ExportAddrs, ts \in Times :
              AddWalletWrite(Writer, w, ts, Thousandths(MIN_VOLUME)) /\ Dirty
       \/ CleanupCount(Writer) /\ UNCHANGED expVars
       \/ CleanupDelete(Writer) /\ Dirty
       \/ ExportStart
       \/ ExportRead
       \/ ExportFinish
    /\ UNCHANGED <<pipeVars, wsVars, auxVars>>

SpecExport == Init /\ [][NextExport]_vars

IsPrefix(s, t, n) == s = SubSeq(t, 1, Min(n, Len(t)))

MaxBatch == 2

Now == 2
AtThreshold == Num(Thousandths(MIN_VOLUME))
BelowThreshold == Num(Thousandths(MIN_VOLUME) - 1)
\* One element for each way through process_transaction_item.
Items ==
    { NonDict,
      Dict("W1", AtThreshold, NoTime),
      Dict("W2", AtThreshold, 1),
      Dict("W1", BelowThreshold, NoTime),
      Dict("W2", NoVolume, 1),
      Dict(NoWallet, AtThreshold, 1),
      Dict("W1", BadVolume, 1),
      Dict(NoWallet, BadVolume, NoTime) }

\* item.get("volume", 0)
GetVolume(item) == IF item.volume.kind = "absent" THEN Num(0) ELSE item.volume

\* item.get("time", int(time.time() * 1000))
GetTime(item, now) == IF item.time = NoTime THEN now ELSE item.time

\* (mutant) the threshold compared with > instead of >=
MeetsThresholdStrict(v) == v.val > Thousandths(MIN_VOLUME)

\* volume >= 60, for a volume that is a number
MeetsThreshold(v) == v.val >= Thousandths(MIN_VOLUME)

\* What process_transaction_item does with an element: "skip" (not a
\* dict), "raise" (volume >= 60 on a value that is no number is a
\* TypeError, and volume is compared before the wallet is looked at),
\* "store" (add_wallet is called) or "drop".
Outcome(item) ==
    IF item.kind # "dict" THEN "skip"
    ELSE IF GetVolume(item).kind # "num" THEN "raise"
    ELSE IF MeetsThreshold(GetVolume(item)) /\ item.wallet # NoWallet THEN "store"
    ELSE "drop"

\* on_token_transaction, lines 209-216, data a list
ReceiveList(items) ==
    /\ idx = 0
    /\ payload' = items
    /\ idx' = IF items = <<>> THEN 0 ELSE 1
    /\ stored' = {}
    /\ raisedAt' = 0
    /\ lastItem' = NoItem
    /\ UNCHANGED <<storeVars, expVars>>

\* on_token_transaction, lines 209-213 and 218-220, data not a list
ReceiveSingle(item) ==
    /\ idx = 0
    /\ payload' = <<item>>
    /\ idx' = 1
    /\ stored' = {}
    /\ raisedAt' = 0
    /\ lastItem' = NoItem
    /\ UNCHANGED <<storeVars, expVars>>

\* process_transaction_item on payload[idx], lines 232-254; ok tells
\* whether add_wallet, if called, returns (or raises, as sqlite3 does on a
\* locked database).  An exception leaves the loop of on_token_transaction
\* for its except clause, lines 227-230.
ProcessItem(ok, now) ==
    /\ idx \in 1..Len(payload)
    /\ LET item == payload[idx]
           out == Outcome(item)
           raises == out = "raise" \/ (out = "store" /\ ~ok)
       IN  /\ wallets' = IF out = "store" /\ ok
                         THEN add_wallet(wallets, item.wallet, GetTime(item, now),
                                         GetVolume(item).val)
                         ELSE wallets
           /\ stored' = IF out = "store" /\ ok THEN stored \cup {idx} ELSE stored
           /\ raisedAt' = IF raises THEN idx ELSE raisedAt
           /\ idx' = IF raises \/ idx = Len(payload) THEN 0 ELSE idx + 1
           /\ lastItem' = [set |-> TRUE, item |-> item, ok |-> ok, now |-> now,
                           pre |-> wallets]
    /\ UNCHANGED <<payload, pc, cnt, seen, last, expVars>>

NextPipe ==
    /\ \/ \E n \in 0..MaxBatch : \E items \in [1..n -> Items] : ReceiveList(items)
       \/ \E item \in Items : ReceiveSingle(item)
       \/ \E ok \in BOOLEAN : ProcessItem(ok, Now)
    /\ UNCHANGED <<wsVars, auxVars>>

SpecPipe == Init /\ [][NextPipe]_vars

\* The inclusion rule as the claim words it: a dict whose wallet is
\* present and whose volume, 0 when absent, is a number >= 60.
Qualifies(item) ==
    /\ item.kind = "dict"
    /\ item.wallet # NoWallet
    /\ item.volume.kind = "num"
    /\ item.volume.val >= Thousandths(MIN_VOLUME)

\* C7: an element is upserted iff it qualifies (and the write itself does
\* not fail); any other element leaves the table as it was.  In particular
\* a volume of 59.999 is never stored and a volume of 60 is.
C7_StoredIffQualifies ==
    lastItem.set =>
        LET item == lastItem.item
        IN  /\ (Qualifies(item) /\ lastItem.ok) =>
                   wallets = add_wallet(lastItem.pre, item.wallet,
                                        GetTime(item, lastItem.now), item.volume.val)
            /\ ~(Qualifies(item) /\ lastItem.ok) => wallets = lastItem.pre
            /\ wallets # lastItem.pre => Qualifies(item)

\* C7's case: an element of volume exactly 60 has been stored, with the
\* receipt time for its missing time.
C7_Witness ==
    /\ lastItem.set
    /\ lastItem.item.volume = AtThreshold
    /\ lastItem.item.time = NoTime
    /\ lastItem.item.wallet = "W1"
    /\ RecordsOf("W1") = {Row("W1", Now, Thousandths(MIN_VOLUME))}
    /\ wallets # lastItem.pre

\* C10: when on_token_transaction is done with a payload, every element
\* that qualifies has been upserted, whatever happened to the elements
\* before it (the element whose own write failed excepted).
C10_LaterElementsStillStored ==
    (idx = 0 /\ payload # <<>>) =>
        \A i \in 1..Len(payload) :
            (Qualifies(payload[i]) /\ i # raisedAt) => i \in stored

(***************************************************************************)
(* SpecWS: the WebSocketService.  Its methods run on the caller's thread   *)
(* (join_room, leave_room, disconnect), on the run_forever thread of one   *)
(* of the WebSocketApps (on_open, on_close) or on a delayed_reconnect      *)
(* thread; each method is one step.                                        *)
(***************************************************************************)
MaxReconnects == 1
MaxCount == 2

\* "transaction" in room
Contains(needle, hay) ==
    \E i \in 0..(Len(hay) - Len(needle)) : SubSeq(hay, i + 1, i + Len(needle)) = needle

\* (mutant) every room routed to self.socket
RouteMain(room) == "main"

\* self.transaction_socket if "transaction" in room else self.socket
Route(room) == IF Contains(TRANSACTION, room) THEN "transaction" ELSE "main"

\* the attribute of that name
Ref(chan) == IF chan = "transaction" THEN transaction_socket ELSE socket

\* socket and socket.sock and socket.sock.connected
IsConnected(ref) == ref # None /\ apps[ref].st \in {"connected", "open"}

Frame(type, room) == [type |-> type, room |-> room, chan |-> Route(room), app |-> Ref(Route(room))]

\* (mutant) the guard of resubscribe_to_rooms with `or` for `and`
resubscribe_to_roomsEither ==
    IF IsConnected(socket) \/ IsConnected(transaction_socket)
    THEN {Frame("join", room) : room \in subscribed_rooms}
    ELSE {}

\* resubscribe_to_rooms, lines 104-109: the frames it sends
resubscribe_to_rooms ==
    IF IsConnected(socket) /\ IsConnected(transaction_socket)
    THEN {Frame("join", room) : room \in subscribed_rooms}
    ELSE {}

\* History: early holds the rooms joined while both channels were still
\* connecting and not joined or left again since; joins counts, up to
\* MaxCount, the join frames sent since then for each of them.
Count(out) ==
    [r \in Rooms |->
        IF r \in early /\ \E f \in out : f.type = "join" /\ f.room = r
        THEN Min(joins[r] + 1, MaxCount) ELSE joins[r]]

BothConnecting == \A chan \in Channels : Ref(chan) # None /\ apps[Ref(chan)].st = "connecting"

\* run_forever of app a: sock.connect() has returned
Connected(a) ==
    /\ apps[a].st = "connecting"
    /\ apps' = [apps EXCEPT ![a].st = "connected"]
    /\ wsLast' = [op |-> "connected", out |-> {}]
    /\ UNCHANGED <<socket, transaction_socket, reconnect_attempts, subscribed_rooms,
                   pending, joins, early, terminated, wanted>>

\* on_open, lines 48-49, called back by app a
on_open(a) ==
    /\ apps[a].st = "connected"
    /\ apps' = [apps EXCEPT ![a].st = "open"]
    /\ wsLast' = [op |-> "on_open", out |-> resubscribe_to_rooms]
    /\ joins' = Count(resubscribe_to_rooms)
    /\ UNCHANGED <<socket, transaction_socket, reconnect_attempts, subscribed_rooms,
                   pending, early, terminated, wanted>>

\* The connection of app a fails or is closed by the other end.
Drop(a) ==
    /\ apps[a].st \in {"connecting", "connected", "open"}
    /\ apps' = [apps EXCEPT ![a].st = "closing"]
    /\ wsLast' = [op |-> "drop", out |-> {}]
    /\ UNCHANGED <<socket, transaction_socket, reconnect_attempts, subscribed_rooms,
                   pending, joins, early, terminated, wanted>>

\* (mutant) on_close forgetting the rooms as well
on_closeClearsRooms(a) ==
    /\ apps[a].st = "closing"
    /\ apps' = [apps EXCEPT ![a].st = "closed"]
    /\ socket' = IF apps[a].type = "main" THEN None ELSE socket
    /\ transaction_socket' = IF apps[a].type = "transaction" THEN None ELSE transaction_socket
    /\ pending' = pending + 1
    /\ subscribed_rooms' = {}
    /\ wsLast' = [op |-> "on_close", out |-> {}]
    /\ UNCHANGED <<reconnect_attempts, joins, early, terminated, wanted>>

\* on_close, lines 51-56, called back by app a, and the reconnect() it
\* calls, lines 76-84, which starts a delayed_reconnect thread
on_close(a) ==
    /\ apps[a].st = "closing"
    /\ apps' = [apps EXCEPT ![a].st = "closed"]
    /\ socket' = IF apps[a].type = "main" THEN None ELSE socket
    /\ transaction_socket' = IF apps[a].type = "transaction" THEN None ELSE transaction_socket
    /\ pending' = pending + 1
    /\ wsLast' = [op |-> "on_close", out |-> {}]
    /\ UNCHANGED <<reconnect_attempts, subscribed_rooms, joins, early, terminated, wanted>>

\* (mutant) the reconnect opening the main channel only
delayed_reconnectSingle ==
    /\ pending > 0
    /\ reconnect_attempts < MaxReconnects
    /\ pending' = pending - 1
    /\ reconnect_attempts' = reconnect_attempts + 1
    /\ apps' = Append(apps, App("main"))
    /\ socket' = Len(apps) + 1
    /\ wsLast' = [op |-> "connect", out |-> {}]
    /\ UNCHANGED <<transaction_socket, subscribed_rooms, joins, early, terminated, wanted>>

\* delayed_reconnect wakes up, lines 82-83, and connect(), lines 28-43
delayed_reconnect ==
    /\ pending > 0
    /\ reconnect_attempts < MaxReconnects
    /\ pending' = pending - 1
    /\ reconnect_attempts' = reconnect_attempts + 1
    /\ apps' = apps \o <<App("main"), App("transaction")>>
    /\ socket' = Len(apps) + 1
    /\ transaction_socket' = Len(apps) + 2
    /\ wsLast' = [op |-> "connect", out |-> {}]
    /\ UNCHANGED <<subscribed_rooms, joins, early, terminated, wanted>>

\* join_room, lines 86-90
join_room(room) ==
    /\ subscribed_rooms' = subscribed_rooms \cup {room}
    /\ LET out == IF IsConnected(Ref(Route(room))) THEN {Frame("join", room)} ELSE {}
       IN  wsLast' = [op |-> "join_room", out |-> out]
    /\ early' = IF BothConnecting THEN early \cup {room} ELSE early \ {room}
    /\ joins' = [joins EXCEPT ![room] = 0]
    /\ wanted' = wanted \cup {room}
    /\ UNCHANGED <<apps, socket, transaction_socket, reconnect_attempts, pending, terminated>>

\* leave_room, lines 92-96
leave_room(room) ==
    /\ subscribed_rooms' = subscribed_rooms \ {room}
    /\ LET out == IF IsConnected(Ref(Route(room))) THEN {Frame("leave", room)} ELSE {}
       IN  wsLast' = [op |-> "leave_room", out |-> out]
    /\ early' = early \ {room}
    /\ joins' = [joins EXCEPT ![room] = 0]
    /\ wanted' = wanted \ {room}
    /\ UNCHANGED <<apps, socket, transaction_socket, reconnect_attempts, pending, terminated>>

\* What close() does to the app a reference names: its connection goes,
\* and its run_forever thread will call on_close.
Close(as, ref) ==
    IF ref # None /\ as[ref].st \in {"connecting", "connected", "open"}
    THEN [as EXCEPT ![ref].st = "closing"] ELSE as

\* disconnect, lines 66-74
disconnect ==
    /\ apps' = Close(Close(apps, socket), transaction_socket)
    /\ socket' = None
    /\ transaction_socket' = None
    /\ subscribed_rooms' = {}
    /\ early' = {}
    /\ joins' = [r \in Rooms |-> 0]
    /\ terminated' = (terminated \/ pending > 0)
    /\ wsLast' = [op |-> "disconnect", out |-> {}]
    /\ wanted' = {}
    /\ UNCHANGED <<reconnect_attempts, pending>>

NextWS ==
    /\ \/ \E a \in 1..Len(apps) : Connected(a)
       \/ \E a \in 1..Len(apps) : on_open(a)
       \/ \E a \in 1..Len(apps) : Drop(a)
       \/ \E a \in 1..Len(apps) : on_close(a)
       \/ delayed_reconnect
       \/ \E room \in Rooms : join_room(room)
       \/ \E room \in Rooms : leave_room(room)
       \/ disconnect
    /\ UNCHANGED <<storeVars, expVars, pipeVars, auxVars>>

SpecWS == Init /\ [][NextWS]_vars

\* The channel's attribute names an app whose socket is connected.
ChannelUp(chan) ==
    LET ref == IF chan = "main" THEN socket ELSE transaction_socket
    IN  ref # None /\ apps[ref].st \in {"connected", "open"}

\* C2: disconnect() is terminal: once disconnect() has been called with a
\* delayed_reconnect still pending, no step opens a socket again (connect()
\* creates no WebSocketApp), the close events of disconnect() included.
C2_NoConnectAfterDisconnect == [][terminated => Len(apps') = Len(apps)]_vars

\* C3: join("transaction:TOK") issued before either channel connects sends
\* no join frame; once both channels have opened, exactly one join frame for
\* "transaction:TOK" has been sent, on the transaction channel, whatever the
\* interleaving of the two channels' open events.
C3_ExactlyOneJoinOnceBothOpen ==
    RoomTransactionTok \in early =>
        /\ wsLast.op = "join_room" => \A f \in wsLast.out : f.room # RoomTransactionTok
        /\ \A f \in wsLast.out : f.room = RoomTransactionTok => f.chan = "transaction"
        /\ (\A chan \in Channels : ChannelUp(chan))
             => joins[RoomTransactionTok] <= 1
        /\ (/\ socket # None /\ apps[socket].st = "open"
            /\ transaction_socket # None /\ apps[transaction_socket].st = "open")
             => joins[RoomTransactionTok] = 1

\* C8: on a channel's open event the join frames of the subscribed rooms are
\* re-issued iff both channels are connected: with one channel connected the
\* open event sends nothing, with both it sends one join frame for every
\* room in subscribed_rooms and nothing else.
C8_ResubscribeIffBothConnected ==
    wsLast.op = "on_open" =>
        IF ChannelUp("main") /\ ChannelUp("transaction")
        THEN /\ \A f \in wsLast.out : f.type = "join"
             /\ {f.room : f \in wsLast.out} = subscribed_rooms
             /\ Cardinality(wsLast.out) = Cardinality(subscribed_rooms)
        ELSE wsLast.out = {}

C8_Witness ==
    /\ wsLast.op = "on_open"
    /\ subscribed_rooms = Rooms
    /\ Cardinality(wsLast.out) = Cardinality(Rooms)

\* C9: every join or leave frame, from join_room, leave_room and
\* resubscribe_to_rooms alike, for a room whose name contains "transaction"
\* goes out on the transaction channel's socket, and every frame for another
\* room on the main channel's socket.
C9_FramesRoutedBySubstring ==
    \A f \in wsLast.out :
        /\ f.room = RoomTransactionTok => f.chan = "transaction"
        /\ f.room = RoomPriceTok => f.chan = "main"
        /\ f.app \in 1..Len(apps)
        /\ apps[f.app].type = f.chan

C9_Witness ==
    /\ \E f \in wsLast.out : f.type = "join" /\ f.chan = "transaction"
    /\ \E f \in wsLast.out : f.type = "join" /\ f.chan = "main"
    /\ reconnect_attempts = MaxReconnects

(***************************************************************************)
(* SpecMsg: on_message and the EventEmitter behind on / off.               *)
(***************************************************************************)
Frames ==
    {NotJson, NotObject}
    \cup {Object(type, room, data) :
              type \in {<<"message">>, <<"joined">>, NoField},
              room \in {RoomTransactionTok, NoField},
              data \in {<<"payload">>, EmptyData, NoField}}

\* The listener raises when it is called.
Raises(h) == h = "hx"

Range(s) == {s[i] : i \in 1..Len(s)}

\* on, lines 98-99: EventEmitter.on keeps one entry per listener
on(room, listener) ==
    /\ listener \notin Range(listeners[room])
    /\ listeners' = [listeners EXCEPT ![room] = Append(@, listener)]
    /\ UNCHANGED msgLast

\* off, lines 101-102: EventEmitter.remove_listener
off(room, listener) ==
    /\ listener \in Range(listeners[room])
    /\ listeners' = [listeners EXCEPT ![room] = SelectSeq(@, LAMBDA h : h # listener)]
    /\ UNCHANGED msgLast

\* data.get("type") == "message" and data.get("data"), line 61
Dispatched(frame) ==
    /\ frame.json = "object"
    /\ frame.type = <<"message">>
    /\ frame.data \notin {NoField, EmptyData}

\* data.get("room", "unknown"), line 62
TopicOf(frame) == IF frame.room = NoField THEN UNKNOWN ELSE frame.room

\* self.emitter.emit, line 62: the listeners of the room are called in the
\* order of their registration; what one raises leaves emit at once and is
\* dropped by the except of line 63.
Called(hs) ==
    IF \E i \in 1..Len(hs) : Raises(hs[i])
    THEN SubSeq(hs, 1, CHOOSE i \in 1..Len(hs) :
                           /\ Raises(hs[i])
                           /\ \A j \in 1..(i - 1) : ~Raises(hs[j]))
    ELSE hs

\* on_message, lines 58-64
on_message(frame) ==
    /\ msgLast' = IF Dispatched(frame)
                  THEN [frame |-> frame, emitted |-> TRUE, topic |-> TopicOf(frame),
                        data |-> frame.data,
                        registered |-> listeners[TopicOf(frame)],
                        called |-> Called(listeners[TopicOf(frame)])]
                  ELSE NoEmit(frame)
    /\ UNCHANGED listeners

NextMsg ==
    /\ \/ \E room \in Topics, listener \in Handlers : on(room, listener)
       \/ \E room \in Topics, listener \in Handlers : off(room, listener)
       \/ \E frame \in Frames : on_message(frame)
    /\ UNCHANGED <<storeVars, expVars, pipeVars, wsVars, timerVars, backoffVars, txnVars, raceVars>>

SpecMsg == Init /\ [][NextMsg]_vars

\* C11: a frame is handed to the emitter only if its type is "message" and
\* it carries both a room and data; a frame of another type, one without a
\* room and one without data cause no emit on any room.
C11_EmitOnlyMessageWithRoomAndData ==
    msgLast.emitted =>
        /\ msgLast.frame.type = <<"message">>
        /\ msgLast.frame.room # NoField
        /\ msgLast.frame.data # NoField

\* C14: a listener that raises does not keep the other listeners of the same
\* emission from running: every listener registered for the room when the
\* frame is emitted is called for it.
C14_EveryListenerCalled ==
    msgLast.emitted => Range(msgLast.registered) \subseteq Range(msgLast.called)

(***************************************************************************)
(* SpecTimer: the loop of export_timer, its cycles failing or not, over    *)
(* any table add_wallet can have left (what the table holds does not       *)
(* change the path the loop takes).  The thread is scheduled again and     *)
(* again (its sleeps end), which is the fairness of the specification;     *)
(* that a cycle raises is up to the environment (the database, the files,  *)
(* git).                                                                   *)
(***************************************************************************)
MaxFailures == 2

\* The tables of at most CAP rows, one row per wallet.
Tables ==
    LET rows == {Row(w, ts, Thousandths(MIN_VOLUME)) : w \in ExportAddrs, ts \in Times}
    IN  {t \in UNION {[1..n -> rows] : n \in 0..CAP} :
            \A i, j \in 1..Len(t) : i # j => t[i].wallet_address # t[j].wallet_address}

InitTimerTable ==
    /\ wallets \in Tables
    /\ pc = [t \in Threads |-> "idle"]
    /\ cnt = [t \in Threads |-> 0]
    /\ seen = {}
    /\ last = NoStep
    /\ InitExport /\ InitPipe /\ InitWS /\ InitMsg /\ InitTimer /\ InitBackoff /\ InitTxn
    /\ woken = <<>>

\* the while True of export_timer, line 295, comes round
TimerStart ==
    /\ exportErr # "dead"
    /\ ExportStart
    /\ exportErr' = "ok"
    /\ UNCHANGED failures

\* (mutant) export_timer without its except clause: the thread ends
ExportRaiseUncaught ==
    /\ expPc \in 1..(Len(SIZES) + 1)
    /\ expPc' = 0
    /\ tiers' = <<>>
    /\ clean' = TRUE
    /\ exportErr' = "dead"
    /\ failures' = Min(failures + 1, MaxFailures)
    /\ UNCHANGED storeVars

\* export_wallets_to_csv raises at a read, at a file or in the GitManager;
\* the except of export_timer, lines 300-302, takes it and sleeps
ExportRaise ==
    /\ expPc \in 1..(Len(SIZES) + 1)
    /\ expPc' = 0
    /\ tiers' = <<>>
    /\ clean' = TRUE
    /\ exportErr' = "failed"
    /\ failures' = Min(failures + 1, MaxFailures)
    /\ UNCHANGED storeVars

TimerThread ==
    \/ TimerStart
    \/ ExportRead /\ UNCHANGED timerVars
    \/ ExportFinish /\ UNCHANGED timerVars

NextTimer ==
    /\ \/ TimerThread
       \/ ExportRaise
    /\ UNCHANGED <<pipeVars, wsVars, msgVars, backoffVars, txnVars, raceVars>>

SpecTimer ==
    /\ InitTimerTable
    /\ [][NextTimer]_vars
    /\ WF_vars(TimerThread /\ UNCHANGED <<pipeVars, wsVars, msgVars, backoffVars, txnVars, raceVars>>)

\* C12: the loop of export_timer does not end on a cycle that raises: the
\* cycle is given up and a later cycle is started, after any number of
\* failed cycles.
C12_LoopSurvivesFailedCycles ==
    /\ [](exportErr # "dead")
    /\ (exportErr = "failed") ~> (exportErr = "ok" /\ expPc = 1)

\* C12's case: a cycle under way after MaxFailures cycles have raised.
C12_Witness ==
    /\ failures = MaxFailures
    /\ exportErr = "ok"
    /\ expPc = Len(SIZES) + 1

(***************************************************************************)
(* SpecBackoff: the delay reconnect() computes, lines 77-79, for every     *)
(* attempt count up to MaxAttempts and every time of day on a grid of      *)
(* Ticks fractions of a second.  Seconds are counted in units of 100       *)
(* microseconds.                                                           *)
(***************************************************************************)
MaxAttempts == 2
Ticks == 1000
MaxSeconds == 2

RECONNECT_DELAY == 25000
RECONNECT_DELAY_MAX == 45000
RANDOMIZATION_PERCENT == 50

RECURSIVE Pow2(_)
Pow2(n) == IF n = 0 THEN 1 ELSE 2 * Pow2(n - 1)

\* delay, line 77
Delay(attempts) == Min(RECONNECT_DELAY * Pow2(attempts), RECONNECT_DELAY_MAX)

\* jitter, line 78
Jitter(attempts) == (Delay(attempts) * RANDOMIZATION_PERCENT) \div 100

\* (mutant) the fraction of the second taken first and doubled after:
\* 2 * (time.time() % 1) - 0.5
JitterFactorOfFraction(t) == [num |-> 4 * (t % Ticks) - Ticks, den |-> 2 * Ticks]

\* 2 * time.time() % 1 - 0.5, line 79: * and % bind alike and from the
\* left, so it is the fraction of twice the time, less a half
JitterFactor(t) == [num |-> 2 * ((2 * t) % Ticks) - Ticks, den |-> 2 * Ticks]

\* reconnect_delay, line 79
ReconnectDelay(attempts, t) ==
    Delay(attempts) + (Jitter(attempts) * JitterFactor(t).num) \div JitterFactor(t).den

InitBackoffInputs ==
    /\ InitStore /\ InitExport /\ InitPipe /\ InitMsg /\ InitTimer /\ InitTxn
    /\ woken = <<>>
    /\ apps = <<App("main"), App("transaction")>>
    /\ socket = 1
    /\ transaction_socket = 2
    /\ reconnect_attempts \in 0..MaxAttempts
    /\ subscribed_rooms = {}
    /\ pending = 0
    /\ wsLast = NoWsStep
    /\ joins = [r \in Rooms |-> 0]
    /\ early = {}
    /\ terminated = FALSE
    /\ wanted = {}
    /\ clock \in 0..(MaxSeconds * Ticks - 1)
    /\ reconnect_delay = NoDelay

\* reconnect, lines 76-84: the delay is computed and the thread started
reconnect ==
    /\ reconnect_delay = NoDelay
    /\ reconnect_delay' = ReconnectDelay(reconnect_attempts, clock)
    /\ pending' = pending + 1
    /\ wsLast' = [op |-> "reconnect", out |-> {}]
    /\ UNCHANGED <<clock, apps, socket, transaction_socket, reconnect_attempts,
                   subscribed_rooms, joins, early, terminated, wanted>>

NextBackoff ==
    /\ reconnect
    /\ UNCHANGED <<storeVars, expVars, pipeVars, msgVars, timerVars, txnVars, raceVars>>

SpecBackoff == InitBackoffInputs /\ [][NextBackoff]_vars

C15_EvictionNeverBelowCap ==
    last.op = "evict" => get_count(wallets) >= CAP

(***************************************************************************)
(* SpecTxn: add_wallet statement by statement, with the transaction of its *)
(* connection, beside reads made on other connections.  sqlite3 opens a    *)
(* transaction before the DELETE; what the connection has written is its   *)
(* own until conn.commit(), and a read on another connection gets the      *)
(* committed table.                                                        *)
(***************************************************************************)
Stored(rows, w) == \E i \in 1..Len(rows) : rows[i].wallet_address = w

\* (mutant) the connection in autocommit mode: the DELETE is committed
\* on its own
TxnDeleteAutocommit(w, ts, amt) ==
    /\ pc[Writer] = "idle"
    /\ txn' = [open |-> TRUE, rows |-> DeleteWallet(wallets, w), w |-> w, ts |-> ts,
               amt |-> amt, stored |-> Stored(wallets, w)]
    /\ wallets' = DeleteWallet(wallets, w)
    /\ pc' = [pc EXCEPT ![Writer] = "deleted"]
    /\ last' = [NoStep EXCEPT !.op = "DELETE"]
    /\ UNCHANGED <<cnt, seen, obs>>

\* add_wallet, lines 132-136: connect, DELETE
TxnDelete(w, ts, amt) ==
    /\ pc[Writer] = "idle"
    /\ txn' = [open |-> TRUE, rows |-> DeleteWallet(wallets, w), w |-> w, ts |-> ts,
               amt |-> amt, stored |-> Stored(wallets, w)]
    /\ pc' = [pc EXCEPT ![Writer] = "deleted"]
    /\ last' = [NoStep EXCEPT !.op = "DELETE"]
    /\ UNCHANGED <<wallets, cnt, seen, obs>>

\* add_wallet, lines 139-142: INSERT
TxnInsert ==
    /\ pc[Writer] = "deleted"
    /\ txn' = [txn EXCEPT !.rows = InsertWallet(txn.rows, txn.w, txn.ts, txn.amt)]
    /\ pc' = [pc EXCEPT ![Writer] = "inserted"]
    /\ last' = [NoStep EXCEPT !.op = "INSERT"]
    /\ UNCHANGED <<wallets, cnt, seen, obs>>

\* add_wallet, lines 144-145: commit, close
TxnCommit ==
    /\ pc[Writer] = "inserted"
    /\ wallets' = txn.rows
    /\ txn' = [txn EXCEPT !.open = FALSE, !.rows = <<>>]
    /\ pc' = [pc EXCEPT ![Writer] = "cleanup"]
    /\ last' = [NoStep EXCEPT !.op = "write"]
    /\ UNCHANGED <<cnt, seen, obs>>

\* The call of add_wallet under way, if it replaces a stored record.
Replacing == IF pc[Writer] # "idle" /\ txn.stored THEN txn.w ELSE ""

\* get_latest_wallets, lines 183-192, on a connection of its own
ReadLatest(count) ==
    /\ obs' = [read |-> "latest", during |-> Replacing,
               latest |-> get_latest_wallets(wallets, count), count |-> 0]
    /\ last' = [NoStep EXCEPT !.op = "read"]
    /\ UNCHANGED <<wallets, pc, cnt, seen, txn>>

\* get_count, lines 194-203, on a connection of its own
ReadCount ==
    /\ obs' = [read |-> "count", during |-> Replacing, latest |-> <<>>,
               count |-> get_count(wallets)]
    /\ last' = [NoStep EXCEPT !.op = "read"]
    /\ UNCHANGED <<wallets, pc, cnt, seen, txn>>

NextTxn ==
    /\ \/ \E w \in ExportAddrs, ts \in Times : TxnDelete(w, ts, Thousandths(MIN_VOLUME))
       \/ TxnInsert
       \/ TxnCommit
       \/ CleanupCount(Writer) /\ UNCHANGED txnVars
       \/ CleanupDelete(Writer) /\ UNCHANGED txnVars
       \/ ReadLatest(CAP + 1)
       \/ ReadCount
    /\ UNCHANGED <<expVars, pipeVars, wsVars, msgVars, timerVars, backoffVars, raceVars>>

SpecTxn == Init /\ [][NextTxn]_vars

\* C16: replacing a stored record is atomic for readers: a latest() or
\* count() made while add_wallet(w, ...) runs for a stored wallet w never
\* finds w gone (latest of the whole table lists w, count is at least 1,
\* and never less than the records latest() would list).
C16_ReaderNeverSeesReplacedWalletAbsent ==
    obs.during # "" =>
        /\ obs.read = "latest" => \E i \in 1..Len(obs.latest) : obs.latest[i] = obs.during
        /\ obs.read = "count" => obs.count >= 1

\* C16's case: a read that fell between the DELETE and the commit of a
\* call replacing a stored record, the table holding only that record.
C16_Witness ==
    /\ last.op = "read"
    /\ obs.during = txn.w
    /\ obs.read = "latest"
    /\ pc[Writer] \in {"deleted", "inserted"}
    /\ txn.open /\ ~Stored(txn.rows, txn.w)
    /\ Len(obs.latest) = 1

\* C17: the close of one channel marks that channel unavailable and
\* schedules a reconnect on a thread of its own: on_close opens nothing
\* itself (it does not wait for the delay), and the reconnect, when it
\* fires, opens both channels together, never one alone.  (Checked under
\* SpecWS.)
C17_CloseSchedulesReconnectOfBoth ==
    [][/\ \A a \in 1..Len(apps) :
              (apps[a].st = "closing" /\ apps'[a].st = "closed") =>
                  /\ (IF apps[a].type = "main" THEN socket' ELSE transaction_socket') = None
                  /\ pending' = pending + 1
                  /\ Len(apps') = Len(apps)
                  /\ reconnect_attempts' = reconnect_attempts
       /\ Len(apps') # Len(apps) =>
              /\ pending' = pending - 1
              /\ Len(apps') = Len(apps) + 2
              /\ SubSeq(apps', 1, Len(apps)) = apps
              /\ {socket', transaction_socket'} = {Len(apps) + 1, Len(apps) + 2}
              /\ apps'[socket'] = [type |-> "main", st |-> "connecting"]
              /\ apps'[transaction_socket'] = [type |-> "transaction", st |-> "connecting"]
      ]_vars

\* C17's case: only the main channel closed, and the reconnect that fired
\* has opened both channels anew.
C17_Witness ==
    /\ wsLast.op = "connect"
    /\ apps[1].st = "closed"
    /\ apps[2].st = "open"
    /\ socket = 3
    /\ transaction_socket = 4

\* C18: subscribed_rooms is changed by join_room, leave_room and
\* disconnect only: it is the set of rooms whose last join_room /
\* leave_room call was a join_room, open, close and reconnect events leave
\* it as it is, and disconnect empties it.  (Checked under SpecWS.)
C18_RoomsChangedOnlyByJoinLeaveDisconnect ==
    /\ [](subscribed_rooms = wanted)
    /\ [][/\ wsLast'.op \notin {"join_room", "leave_room", "disconnect"}
              => subscribed_rooms' = subscribed_rooms
          /\ wsLast'.op = "disconnect" => subscribed_rooms' = {}
          /\ wsLast'.op = "join_room"
              => \E room \in Rooms : subscribed_rooms' = subscribed_rooms \cup {room}
          /\ wsLast'.op = "leave_room"
              => \E room \in Rooms : subscribed_rooms' = subscribed_rooms \ {room}
         ]_vars

\* C18's case: the rooms joined before still subscribed after a close and
\* the reconnect, with the new channels open.
C18_Witness ==
    /\ subscribed_rooms = Rooms
    /\ reconnect_attempts = MaxReconnects
    /\ socket # None /\ apps[socket].st = "open"
    /\ wsLast.op = "on_open"

\* C20: at most one live connection (a socket connected, its receive loop
\* running) per channel in every reachable state, whatever closes and
\* reconnects came before.  (Checked under SpecWS.)
C20_OneLiveConnectionPerChannel ==
    \A chan \in Channels :
        Cardinality({a \in 1..Len(apps) :
                        apps[a].type = chan /\ apps[a].st \in {"connected", "open"}}) <= 1

(***************************************************************************)
(* SpecReconnect: the WebSocketService with its delayed_reconnect threads  *)
(* taken statement by statement.  self.reconnect_attempts += 1 (line 82)   *)
(* reads the attribute and writes it back; nothing keeps two threads that  *)
(* woke up together from both reading it before either writes.             *)
(***************************************************************************)
MaxFires == 2

\* The delayed_reconnect threads that have woken up so far.
Fired == (Len(apps) - 2) \div 2 + Len(woken)

\* delayed_reconnect, lines 81-82: the sleep ends, self.reconnect_attempts
\* is read
delayed_reconnect_read ==
    /\ pending > 0
    /\ Fired < MaxFires
    /\ pending' = pending - 1
    /\ woken' = Append(woken, reconnect_attempts)
    /\ wsLast' = [op |-> "wake", out |-> {}]
    /\ UNCHANGED <<apps, socket, transaction_socket, reconnect_attempts, subscribed_rooms,
                   joins, early, terminated, wanted>>

\* delayed_reconnect, lines 82-83: self.reconnect_attempts is written, and
\* connect(), lines 28-43
delayed_reconnect_write(i) ==
    /\ i \in 1..Len(woken)
    /\ reconnect_attempts' = woken[i] + 1
    /\ woken' = SubSeq(woken, 1, i - 1) \o SubSeq(woken, i + 1, Len(woken))
    /\ apps' = apps \o <<App("main"), App("transaction")>>
    /\ socket' = Len(apps) + 1
    /\ transaction_socket' = Len(apps) + 2
    /\ wsLast' = [op |-> "connect", out |-> {}]
    /\ UNCHANGED <<pending, subscribed_rooms, joins, early, terminated, wanted>>

NextReconnect ==
    /\ \/ \E a \in 1..Len(apps) : Connected(a) /\ UNCHANGED woken
       \/ \E a \in 1..Len(apps) : on_open(a) /\ UNCHANGED woken
       \/ \E a \in 1..Len(apps) : Drop(a) /\ UNCHANGED woken
       \/ \E a \in 1..Len(apps) : on_close(a) /\ UNCHANGED woken
       \/ delayed_reconnect_read
       \/ \E i \in 1..Len(woken) : delayed_reconnect_write(i)
       \/ join_room(RoomTransactionTok) /\ UNCHANGED woken
       \/ leave_room(RoomTransactionTok) /\ UNCHANGED woken
       \/ disconnect /\ UNCHANGED woken
    /\ UNCHANGED <<storeVars, expVars, pipeVars, msgVars, timerVars, backoffVars, txnVars>>

SpecReconnect == Init /\ [][NextReconnect]_vars

\* C19: reconnect_attempts never goes down: it starts at 0, goes up by one
\* each time a delayed_reconnect fires (connect() is called), and no other
\* step (an open, join_room, leave_room, disconnect) changes it.
C19_AttemptsCountFiredReconnects ==
    /\ reconnect_attempts = 0
    /\ [][IF Len(apps') # Len(apps)
          THEN reconnect_attempts' = reconnect_attempts + 1
          ELSE reconnect_attempts' = reconnect_attempts]_vars

\* C21: a close event marks a channel unavailable only when the socket that
\* closed is the one the service holds for that channel: the on_close of a
\* socket a reconnect has replaced leaves the attribute of its channel, and
\* with it the newer socket join_room, leave_room and resubscribe_to_rooms
\* use, as it is.  (Checked under SpecWS.)
C21_StaleCloseKeepsCurrentSocket ==
    [][\A a \in 1..Len(apps) :
          LET held == IF apps[a].type = "main" THEN socket ELSE transaction_socket
              held_after == IF apps[a].type = "main" THEN socket' ELSE transaction_socket'
          IN  (apps[a].st = "closing" /\ apps'[a].st = "closed" /\ held \notin {a, None})
                  => held_after = held
      ]_vars

====
